---- MODULE Spec2Model ----
(***************************************************************************)
(* Leaf-tree codecs of the `exist` serialization library: the Basic,       *)
(* Prefix and PrefixCompressed encoders/decoders over Concrete<u8> leaf    *)
(* trees, with Rust panics modelled as an `ok` flag on every result.       *)
(***************************************************************************)
EXTENDS Integers, Sequences, FiniteSets, TLC

\* ------------------------------------------------------------------------
\* Bounds of the model
\* ------------------------------------------------------------------------
\* Every concrete tree with at most MaxNodes nodes is an input.
MaxNodes == 6
\* Longest list of the wide inputs (lists around the inline-marker limit).
MaxWide == 128
\* Longest raw byte string handed to a decoder.
MaxRawLen == 3
\* Number of calls made on one codec instance in SpecCalls.
MaxCalls == 3
\* Longest list of children under one field of a typed value tree.
MaxChildren == 2
\* Every concrete tree with at most MaxCutNodes nodes has its encodings
\* truncated, corrupted and extended into malformed decoder inputs.
MaxCutNodes == 4
\* Callbacks a scripted view issues at its root, at most.
MaxScript == 3
\* Bytes that follow an encoding in the decoder's input, at most.
MaxTrail == 2
\* Nodes of the trees whose encodings are followed by more bytes, at most.
MaxTrailNodes == 3

\* ------------------------------------------------------------------------
\* Concrete<u8> (data_models/leaf_tree.rs)
\* ------------------------------------------------------------------------
\* Concrete::List(children)
List(children) == [isList |-> TRUE, v |-> 0, c |-> children]

\* Concrete::Value(b)
Value(b) == [isList |-> FALSE, v |-> b, c |-> <<>>]

\* Byte payloads of the enumerated trees: 2 collides with Basic's LIST_END.
ByteVals == {2, 12}

RECURSIVE TreesOfSize(_), Forests(_)
\* All concrete trees with exactly n nodes.
TreesOfSize(n) ==
    IF n = 1
    THEN {Value(b) : b \in ByteVals} \cup {List(<<>>)}
    ELSE {List(f) : f \in Forests(n - 1)}

\* All non-empty sequences of trees with m nodes in total (m >= 1).
Forests(m) ==
    UNION {
        {<<t>> \o f : t \in TreesOfSize(k),
                      f \in (IF k = m THEN {<<>>} ELSE Forests(m - k))}
        : k \in 1..m }

L(bytes) == List([i \in 1..Len(bytes) |-> Value(bytes[i])])

\* The repetition scenarios of the test-suite tables.
Scenarios ==
    { Value(13),
      L(<<12, 13>>),
      List(<<L(<<12>>), L(<<12>>), L(<<12>>), L(<<12>>)>>),
      List(<<L(<<12>>), L(<<12, 12>>), L(<<12>>), L(<<13>>)>>),
      List(<<List(<<List(<<>>)>>), List(<<List(<<>>)>>), List(<<>>)>>) }

Repeat(t, n) == [i \in 1..n |-> t]

\* Lists whose length straddles the inline-marker limit, alone and repeated.
WideTrees ==
    UNION { { List(Repeat(Value(12), n)),
              List(<<List(Repeat(Value(12), n)), List(Repeat(Value(12), n))>>) }
            : n \in 126..MaxWide }

Trees == (UNION {TreesOfSize(n) : n \in 1..MaxNodes}) \cup Scenarios \cup WideTrees

\* With(x, LAMBDA v: e) is LET v == x IN e, with x evaluated once, before e.
\* (TLC evaluates a LET definition or an operator argument at each use, so a
\* loop written with LET is re-evaluated from its start at every iteration.)
With(x, F(_)) == CHOOSE r \in {F(v) : v \in {x}} : TRUE

\* ------------------------------------------------------------------------
\* Views and the visitor protocol (data_models/leaf_tree.rs)
\* ------------------------------------------------------------------------
\* A view is a concrete tree, Basic's lazy Tree over a byte slice, or an
\* encoded blob that a prefix decoder decodes when it is visited.
ConcreteView(t) == [kind |-> "Concrete", tree |-> t, data |-> <<>>]

BasicTree(d) == [kind |-> "BasicTree", tree |-> List(<<>>), data |-> d]

PrefixEncoded(d) == [kind |-> "Prefix", tree |-> List(<<>>), data |-> d]

PrefixCompressedEncoded(d) ==
    [kind |-> "PrefixCompressed", tree |-> List(<<>>), data |-> d]

\* The two visitor callbacks, as values.
\* Any other implementation of View: one that issues the given callbacks.
ScriptView(calls) == [kind |-> "Script", tree |-> List(<<>>), data |-> calls]

visit_list(sub) == [isList |-> TRUE, sub |-> sub, v |-> 0]

visit_value(b) == [isList |-> FALSE, sub |-> ConcreteView(List(<<>>)), v |-> b]

\* What a visit did: the callbacks it issued, and whether it panicked.
Visited(calls) == [ok |-> TRUE, calls |-> calls]

VisitPanic(calls) == [ok |-> FALSE, calls |-> calls]

\* impl View for Concrete: one visit_list per child, or one visit_value.
ConcreteVisit(t) ==
    IF t.isList
    THEN Visited([i \in 1..Len(t.c) |-> visit_list(ConcreteView(t.c[i]))])
    ELSE Visited(<<visit_value(t.v)>>)

\* ------------------------------------------------------------------------
\* Basic codec (basic_encoding.rs)
\* ------------------------------------------------------------------------
BASIC_LIST_MARKER == 0
BASIC_LIST_END == 2
BASIC_VALUE_MARKER == 1

\* Mutant of BasicLoopStep: the end of the data ends the visit at any level.
BasicLoopStep_end_returns(data, st) ==
    IF st.returned \/ ~st.ok
    THEN st
    ELSE IF st.i >= Len(data)
    THEN [st EXCEPT !.returned = TRUE]
    ELSE IF data[st.i + 1] = BASIC_LIST_END
    THEN IF st.level - 1 = -1
         THEN [st EXCEPT !.level = -1, !.returned = TRUE]
         ELSE [st EXCEPT !.level = @ - 1, !.i = @ + 1]
    ELSE IF data[st.i + 1] = BASIC_LIST_MARKER
    THEN [st EXCEPT
            !.calls = IF st.level = 0
                      THEN Append(@, visit_list(
                               BasicTree(SubSeq(data, st.i + 2, Len(data)))))
                      ELSE @,
            !.level = @ + 1,
            !.i = @ + 1]
    ELSE IF data[st.i + 1] # BASIC_VALUE_MARKER
    THEN [st EXCEPT !.ok = FALSE]
    ELSE IF st.level = 0
    THEN [st EXCEPT !.ok = FALSE]
    ELSE [st EXCEPT !.i = @ + 2]

\* One iteration of the scanning loop of Tree::visit. st holds the loop's
\* variables (i is the 0-based index of the code), whether the visit has
\* returned, and whether it has panicked.
BasicLoopStep(data, st) ==
    IF st.returned \/ ~st.ok
    THEN st
    ELSE IF st.i > Len(data)
    THEN [st EXCEPT !.ok = FALSE]                \* self.data[i] out of bounds
    ELSE IF st.i = Len(data) \/ data[st.i + 1] = BASIC_LIST_END
    THEN IF st.level - 1 = -1
         THEN [st EXCEPT !.level = -1, !.returned = TRUE]
         ELSE [st EXCEPT !.level = @ - 1, !.i = @ + 1]
    ELSE IF data[st.i + 1] = BASIC_LIST_MARKER
    THEN [st EXCEPT
            !.calls = IF st.level = 0
                      THEN Append(@, visit_list(
                               BasicTree(SubSeq(data, st.i + 2, Len(data)))))
                      ELSE @,
            !.level = @ + 1,
            !.i = @ + 1]
    ELSE IF data[st.i + 1] # BASIC_VALUE_MARKER
    THEN [st EXCEPT !.ok = FALSE]                \* assert_eq!
    ELSE IF st.level = 0
    THEN [st EXCEPT !.ok = FALSE]                \* panic!()
    ELSE [st EXCEPT !.i = @ + 2]

RECURSIVE BasicLoop(_, _, _)
\* n iterations of the loop, run as two halves one after the other. The
\* loop has returned or panicked within Len(data) + 2 iterations, since
\* every iteration advances i.
BasicLoop(data, st, n) ==
    IF n = 0
    THEN st
    ELSE IF n = 1
    THEN BasicLoopStep(data, st)
    ELSE With(BasicLoop(data, st, n \div 2),
              LAMBDA first:
                  IF first.ok /\ ~first.returned
                  THEN BasicLoop(data, first, n - n \div 2)
                  ELSE first)

\* Mutant of BasicTreeVisit: no early return on an empty slice.
BasicTreeVisit_no_empty_check(data) ==
    IF Len(data) = 0
    THEN VisitPanic(<<>>)                        \* self.data[0] out of bounds
    ELSE IF data[1] = BASIC_VALUE_MARKER
    THEN IF Len(data) < 2
         THEN VisitPanic(<<>>)
         ELSE Visited(<<visit_value(data[2])>>)
    ELSE IF data[1] # BASIC_LIST_MARKER
    THEN VisitPanic(<<>>)
    ELSE With(BasicLoop(data,
                        [i |-> 0, level |-> 0, calls |-> <<>>,
                         returned |-> FALSE, ok |-> TRUE],
                        Len(data) + 2),
              LAMBDA st:
                  IF st.ok /\ st.returned
                  THEN Visited(st.calls)
                  ELSE VisitPanic(st.calls))

\* impl View for Tree (Basic's decoder view).
BasicTreeVisit(data) ==
    IF Len(data) = 0
    THEN Visited(<<>>)
    ELSE IF data[1] = BASIC_VALUE_MARKER
    THEN IF Len(data) < 2
         THEN VisitPanic(<<>>)                   \* self.data[1] out of bounds
         ELSE Visited(<<visit_value(data[2])>>)
    ELSE IF data[1] # BASIC_LIST_MARKER
    THEN VisitPanic(<<>>)                        \* assert!(marker == LIST_MARKER)
    ELSE With(BasicLoop(data,
                        [i |-> 0, level |-> 0, calls |-> <<>>,
                         returned |-> FALSE, ok |-> TRUE],
                        Len(data) + 2),
              LAMBDA st:
                  IF st.ok /\ st.returned
                  THEN Visited(st.calls)
                  ELSE VisitPanic(st.calls))

\* ------------------------------------------------------------------------
\* Prefix codec (prefix_encoding.rs): markers and cursor reads
\* ------------------------------------------------------------------------
LIST_MARKER == 0
VALUE_MARKER == 1
INLINE_LIST_MIN == 128
TEMPLATE_USE_MARKER == 4
U8_MAX == 255

\* Counts at or above this are all "more than any input holds": the model
\* keeps them apart from real counts without leaving TLC's integer range.
Saturated == 1024 * 1024 * 1024

RECURSIVE ToLittleEndian(_, _)
\* write_u64::<LittleEndian> / write_u32::<LittleEndian>: k bytes of n.
ToLittleEndian(n, k) ==
    IF k = 0 THEN <<>> ELSE <<n % 256>> \o ToLittleEndian(n \div 256, k - 1)

RECURSIVE FromLittleEndian(_)
\* read_u64::<LittleEndian> / read_u32::<LittleEndian> on the bytes read.
FromLittleEndian(bytes) ==
    IF bytes = <<>>
    THEN 0
    ELSE With(FromLittleEndian(Tail(bytes)),
              LAMBDA hi:
                  IF hi >= Saturated \div 256
                  THEN Saturated
                  ELSE bytes[1] + 256 * hi)

\* A cursor read of k bytes at 0-based position pos; fails at end of input.
ReadUint(data, pos, k) ==
    IF pos + k > Len(data)
    THEN [ok |-> FALSE, n |-> 0, pos |-> pos]
    ELSE [ok |-> TRUE,
          n |-> FromLittleEndian(SubSeq(data, pos + 1, pos + k)),
          pos |-> pos + k]

MarkerPanic == [ok |-> FALSE, kind |-> "Other", n |-> 0, pos |-> 0]

\* Mutant of read_marker: the inline range starts above INLINE_LIST_MIN, so
\* the marker of an empty inline list is Marker::Other.
read_marker_gt(data, pos) ==
    With(ReadUint(data, pos, 1), LAMBDA marker:
        IF ~marker.ok
        THEN MarkerPanic
        ELSE IF marker.n = LIST_MARKER
        THEN With(ReadUint(data, marker.pos, 8), LAMBDA count:
                 IF ~count.ok
                 THEN MarkerPanic
                 ELSE [ok |-> TRUE, kind |-> "List", n |-> count.n,
                       pos |-> count.pos])
        ELSE IF marker.n = VALUE_MARKER
        THEN With(ReadUint(data, marker.pos, 1), LAMBDA b:
                 IF ~b.ok
                 THEN MarkerPanic
                 ELSE [ok |-> TRUE, kind |-> "Value", n |-> b.n, pos |-> b.pos])
        ELSE IF marker.n > INLINE_LIST_MIN
        THEN [ok |-> TRUE, kind |-> "List", n |-> marker.n - INLINE_LIST_MIN,
              pos |-> marker.pos]
        ELSE [ok |-> TRUE, kind |-> "Other", n |-> marker.n, pos |-> marker.pos])

\* Mutant of read_marker: an exhausted reader reads as an empty inline list
\* (read_u8().unwrap_or(INLINE_LIST_MIN)).
read_marker_eof_empty(data, pos) ==
    With(ReadUint(data, pos, 1), LAMBDA marker:
        IF ~marker.ok
        THEN [ok |-> TRUE, kind |-> "List", n |-> 0, pos |-> pos]
        ELSE IF marker.n = LIST_MARKER
        THEN With(ReadUint(data, marker.pos, 8), LAMBDA count:
                 IF ~count.ok
                 THEN MarkerPanic
                 ELSE [ok |-> TRUE, kind |-> "List", n |-> count.n,
                       pos |-> count.pos])
        ELSE IF marker.n = VALUE_MARKER
        THEN With(ReadUint(data, marker.pos, 1), LAMBDA b:
                 IF ~b.ok
                 THEN MarkerPanic
                 ELSE [ok |-> TRUE, kind |-> "Value", n |-> b.n, pos |-> b.pos])
        ELSE IF marker.n >= INLINE_LIST_MIN
        THEN [ok |-> TRUE, kind |-> "List", n |-> marker.n - INLINE_LIST_MIN,
              pos |-> marker.pos]
        ELSE [ok |-> TRUE, kind |-> "Other", n |-> marker.n, pos |-> marker.pos])

\* fn read_marker: Marker::List(count) | Marker::Value(b) | Marker::Other(m)
read_marker(data, pos) ==
    With(ReadUint(data, pos, 1), LAMBDA marker:
        IF ~marker.ok
        THEN MarkerPanic                          \* read_u8().unwrap()
        ELSE IF marker.n = LIST_MARKER
        THEN With(ReadUint(data, marker.pos, 8), LAMBDA count:
                 IF ~count.ok
                 THEN MarkerPanic                 \* read_u64().unwrap()
                 ELSE [ok |-> TRUE, kind |-> "List", n |-> count.n,
                       pos |-> count.pos])
        ELSE IF marker.n = VALUE_MARKER
        THEN With(ReadUint(data, marker.pos, 1), LAMBDA b:
                 IF ~b.ok
                 THEN MarkerPanic                 \* read_u8().unwrap()
                 ELSE [ok |-> TRUE, kind |-> "Value", n |-> b.n, pos |-> b.pos])
        ELSE IF marker.n >= INLINE_LIST_MIN
        THEN [ok |-> TRUE, kind |-> "List", n |-> marker.n - INLINE_LIST_MIN,
              pos |-> marker.pos]
        ELSE [ok |-> TRUE, kind |-> "Other", n |-> marker.n, pos |-> marker.pos])

\* Mutant of write_list_marker: the inline form stops one short of 127.
write_list_marker_lt(out, length) ==
    IF length < U8_MAX - INLINE_LIST_MIN
    THEN Append(out, length + INLINE_LIST_MIN)
    ELSE Append(out, LIST_MARKER) \o ToLittleEndian(length, 8)

\* Mutant of write_list_marker: an empty list writes no marker at all.
write_list_marker_skip_empty(out, length) ==
    IF length = 0
    THEN out
    ELSE IF length <= U8_MAX - INLINE_LIST_MIN
    THEN Append(out, length + INLINE_LIST_MIN)
    ELSE Append(out, LIST_MARKER) \o ToLittleEndian(length, 8)

\* fn write_list_marker
write_list_marker(out, length) ==
    IF length <= U8_MAX - INLINE_LIST_MIN
    THEN Append(out, length + INLINE_LIST_MIN)
    ELSE Append(out, LIST_MARKER) \o ToLittleEndian(length, 8)

\* ------------------------------------------------------------------------
\* Prefix codec: encode / decode
\* ------------------------------------------------------------------------
RECURSIVE prefix_encode(_, _), prefix_encode_children(_, _, _, _)
\* fn prefix_encode
prefix_encode(c, out) ==
    IF c.isList
    THEN prefix_encode_children(c.c, 1, Len(c.c), write_list_marker(out, Len(c.c)))
    ELSE out \o <<VALUE_MARKER, c.v>>

\* for child in list { prefix_encode(child, out) }, over list[lo..hi]: the
\* children in order, the range run as two halves one after the other.
prefix_encode_children(list, lo, hi, out) ==
    IF lo > hi
    THEN out
    ELSE IF lo = hi
    THEN prefix_encode(list[lo], out)
    ELSE With(prefix_encode_children(list, lo, (lo + hi) \div 2, out),
              LAMBDA first:
                  prefix_encode_children(list, (lo + hi) \div 2 + 1, hi, first))

DecodePanic == [ok |-> FALSE, tree |-> List(<<>>), pos |-> 0]

RECURSIVE prefix_decode(_, _), prefix_decode_children(_, _, _, _)
\* Mutant of prefix_decode: an unknown marker is read as an empty list.
prefix_decode_lenient(data, pos) ==
    With(read_marker(data, pos), LAMBDA marker:
        IF ~marker.ok
        THEN DecodePanic
        ELSE IF marker.kind = "List"
        THEN prefix_decode_children(data, marker.pos, marker.n, <<>>)
        ELSE IF marker.kind = "Value"
        THEN [ok |-> TRUE, tree |-> Value(marker.n), pos |-> marker.pos]
        ELSE [ok |-> TRUE, tree |-> List(<<>>), pos |-> marker.pos])

\* Mutant of prefix_decode: the decoding of the root must end at the end of
\* the input.
prefix_decode_to_end(data, pos) ==
    With(read_marker(data, pos), LAMBDA marker:
        With(IF ~marker.ok
             THEN DecodePanic
             ELSE IF marker.kind = "List"
             THEN prefix_decode_children(data, marker.pos, marker.n, <<>>)
             ELSE IF marker.kind = "Value"
             THEN [ok |-> TRUE, tree |-> Value(marker.n), pos |-> marker.pos]
             ELSE DecodePanic,
             LAMBDA r:
                 IF pos = 0 /\ r.ok /\ r.pos # Len(data)
                 THEN DecodePanic
                 ELSE r))

\* fn prefix_decode
prefix_decode(data, pos) ==
    With(read_marker(data, pos), LAMBDA marker:
        IF ~marker.ok
        THEN DecodePanic
        ELSE IF marker.kind = "List"
        THEN prefix_decode_children(data, marker.pos, marker.n, <<>>)
        ELSE IF marker.kind = "Value"
        THEN [ok |-> TRUE, tree |-> Value(marker.n), pos |-> marker.pos]
        ELSE DecodePanic)                         \* Marker::Other(_) => panic!()

\* for _i in 0..count { children.push(prefix_decode(input)) }: count
\* children pushed in order, the count run as two halves one after the other.
prefix_decode_children(data, pos, count, children) ==
    IF count = 0
    THEN [ok |-> TRUE, tree |-> List(children), pos |-> pos]
    ELSE IF count = 1
    THEN With(prefix_decode(data, pos), LAMBDA child:
             IF ~child.ok
             THEN DecodePanic
             ELSE [ok |-> TRUE, tree |-> List(Append(children, child.tree)),
                   pos |-> child.pos])
    ELSE With(prefix_decode_children(data, pos, count \div 2, children),
              LAMBDA first:
                  IF ~first.ok
                  THEN DecodePanic
                  ELSE prefix_decode_children(data, first.pos,
                                              count - count \div 2, first.tree.c))

\* ------------------------------------------------------------------------
\* PrefixCompressed codec: the dictionary (struct State)
\* ------------------------------------------------------------------------
\* State::new
State_new == [templates |-> <<>>, template_map |-> <<>>]

\* Mutant of record: the index is taken after the push.
record_len_after_push(state, c) ==
    IF c \notin DOMAIN state.template_map
    THEN [templates |-> Append(state.templates, c),
          template_map |->
              [t \in DOMAIN state.template_map \cup {c} |->
                  IF t \in DOMAIN state.template_map
                  THEN state.template_map[t]
                  ELSE Len(state.templates) + 1]]
    ELSE state

\* Mutant of record: the tree is pushed whether or not it was inserted.
record_always_push(state, c) ==
    [templates |-> Append(state.templates, c),
     template_map |->
         [t \in DOMAIN state.template_map \cup {c} |->
             IF t \in DOMAIN state.template_map
             THEN state.template_map[t]
             ELSE Len(state.templates)]]

\* State::record: or_insert_with the next index, push only when inserted.
record(state, c) ==
    LET len == Len(state.templates)
        inserted == c \notin DOMAIN state.template_map
    IN  IF inserted
        THEN [templates |-> Append(state.templates, c),
              template_map |->
                  [t \in DOMAIN state.template_map \cup {c} |->
                      IF t \in DOMAIN state.template_map
                      THEN state.template_map[t]
                      ELSE len]]
        ELSE state

\* Leaf values set aside: the shape of a tree.
RECURSIVE ShapeOf(_)
ShapeOf(c) ==
    IF c.isList
    THEN List([i \in 1..Len(c.c) |-> ShapeOf(c.c[i])])
    ELSE Value(0)

\* Mutant of lookup: a template of the same shape is found, whatever its
\* leaf values.
lookup_by_shape(state, c) ==
    IF \E t \in DOMAIN state.template_map : ShapeOf(t) = ShapeOf(c)
    THEN [some |-> TRUE,
          index |-> state.template_map[
              CHOOSE t \in DOMAIN state.template_map : ShapeOf(t) = ShapeOf(c)]]
    ELSE [some |-> FALSE, index |-> 0]

\* Mutant of lookup: nothing is ever found.
lookup_none(state, c) == [some |-> FALSE, index |-> 0]

\* State::lookup: Option<&u32>
lookup(state, c) ==
    IF c \in DOMAIN state.template_map
    THEN [some |-> TRUE, index |-> state.template_map[c]]
    ELSE [some |-> FALSE, index |-> 0]

\* ------------------------------------------------------------------------
\* PrefixCompressed codec: encode / decode
\* ------------------------------------------------------------------------
\* One return of prefix_encode_compressed / prefix_decode_compressed: the
\* node c it processed, the dictionary at entry and at return, the match arm
\* taken ("List" spelled out, "Use" of a template, "Value"), the bytes it
\* wrote or consumed, and the number of nested calls it made.
Step(c, before, after, arm, bytes, inner) ==
    [c |-> c, before |-> before, after |-> after, arm |-> arm,
     bytes |-> bytes, inner |-> inner]

RECURSIVE prefix_encode_compressed(_, _, _), prefix_encode_compressed_children(_, _, _, _, _)
\* Mutant of prefix_encode_compressed: a list is recorded before its
\* children are encoded (pre-order).
prefix_encode_compressed_preorder(state, c, out) ==
    IF c.isList
    THEN LET id == lookup(state, c)
         IN  IF id.some
             THEN [state |-> state,
                   out |-> Append(out, TEMPLATE_USE_MARKER)
                               \o ToLittleEndian(id.index, 4),
                   steps |-> <<>>]
             ELSE prefix_encode_compressed_children(
                      record(state, c), c.c, 1, Len(c.c),
                      write_list_marker(out, Len(c.c)))
    ELSE [state |-> state, out |-> out \o <<VALUE_MARKER, c.v>>,
          steps |-> <<>>]

\* Mutant of prefix_encode_compressed: state.record(c) is called for every
\* node, a Value included.
prefix_encode_compressed_record_all(state, c, out) ==
    IF c.isList
    THEN With(LET id == lookup(state, c)
              IN  IF id.some
                  THEN [state |-> state,
                        out |-> Append(out, TEMPLATE_USE_MARKER)
                                    \o ToLittleEndian(id.index, 4),
                        steps |-> <<>>]
                  ELSE prefix_encode_compressed_children(
                           state, c.c, 1, Len(c.c),
                           write_list_marker(out, Len(c.c))),
              LAMBDA done:
                  With(record(done.state, c), LAMBDA recorded:
                      [state |-> recorded, out |-> done.out,
                       steps |-> Append(done.steps,
                           Step(c, state, recorded,
                                IF lookup(state, c).some THEN "Use" ELSE "List",
                                SubSeq(done.out, Len(out) + 1, Len(done.out)),
                                Len(done.steps)))]))
    ELSE [state |-> record(state, c), out |-> out \o <<VALUE_MARKER, c.v>>,
          steps |-> <<Step(c, state, record(state, c), "Value",
                           <<VALUE_MARKER, c.v>>, 0)>>]

\* fn prefix_encode_compressed; yields the state and output it leaves, and
\* the returns of all the calls made, in the order they returned.
prefix_encode_compressed(state, c, out) ==
    IF c.isList
    THEN With(LET id == lookup(state, c)
              IN  IF id.some
                  THEN [state |-> state,
                        out |-> Append(out, TEMPLATE_USE_MARKER)
                                    \o ToLittleEndian(id.index, 4),
                        steps |-> <<>>]
                  ELSE prefix_encode_compressed_children(
                           state, c.c, 1, Len(c.c),
                           write_list_marker(out, Len(c.c))),
              LAMBDA done:
                  With(record(done.state, c), LAMBDA recorded:
                      [state |-> recorded, out |-> done.out,
                       steps |-> Append(done.steps,
                           Step(c, state, recorded,
                                IF lookup(state, c).some THEN "Use" ELSE "List",
                                SubSeq(done.out, Len(out) + 1, Len(done.out)),
                                Len(done.steps)))]))
    ELSE [state |-> state, out |-> out \o <<VALUE_MARKER, c.v>>,
          steps |-> <<Step(c, state, state, "Value", <<VALUE_MARKER, c.v>>, 0)>>]

\* for child in list { prefix_encode_compressed(state, child, out) }, over
\* list[lo..hi]: in order, the range run as two halves one after the other.
prefix_encode_compressed_children(state, list, lo, hi, out) ==
    IF lo > hi
    THEN [state |-> state, out |-> out, steps |-> <<>>]
    ELSE IF lo = hi
    THEN prefix_encode_compressed(state, list[lo], out)
    ELSE With(prefix_encode_compressed_children(
                  state, list, lo, (lo + hi) \div 2, out),
              LAMBDA first:
                  With(prefix_encode_compressed_children(
                           first.state, list, (lo + hi) \div 2 + 1, hi,
                           first.out),
                       LAMBDA rest:
                           [rest EXCEPT !.steps = first.steps \o @]))

CompressedPanic(state) ==
    [ok |-> FALSE, tree |-> List(<<>>), pos |-> 0, state |-> state,
     steps |-> <<>>]

RECURSIVE prefix_decode_compressed(_, _, _), prefix_decode_compressed_children(_, _, _, _, _)
\* Mutant of prefix_decode_compressed: a template index past the end of the
\* dictionary yields an empty list (templates.get(index).unwrap_or_default()).
prefix_decode_compressed_default(state, data, pos) ==
    With(read_marker(data, pos), LAMBDA marker:
        IF ~marker.ok
        THEN CompressedPanic(state)
        ELSE IF marker.kind = "List"
        THEN With(prefix_decode_compressed_children(
                      state, data, marker.pos, marker.n, <<>>),
                  LAMBDA out:
                      IF ~out.ok
                      THEN out
                      ELSE With(record(out.state, out.tree), LAMBDA recorded:
                               [out EXCEPT
                                   !.state = recorded,
                                   !.steps = Append(@,
                                       Step(out.tree, state, recorded, "List",
                                            SubSeq(data, pos + 1, out.pos),
                                            Len(out.steps)))]))
        ELSE IF marker.kind = "Value"
        THEN [ok |-> TRUE, tree |-> Value(marker.n), pos |-> marker.pos,
              state |-> state,
              steps |-> <<Step(Value(marker.n), state, state, "Value",
                               SubSeq(data, pos + 1, marker.pos), 0)>>]
        ELSE IF marker.n = TEMPLATE_USE_MARKER
        THEN With(ReadUint(data, marker.pos, 4), LAMBDA index:
                 IF ~index.ok
                 THEN CompressedPanic(state)
                 ELSE IF index.n >= Len(state.templates)
                 THEN [ok |-> TRUE, tree |-> List(<<>>),
                       pos |-> index.pos, state |-> state, steps |-> <<>>]
                 ELSE [ok |-> TRUE, tree |-> state.templates[index.n + 1],
                       pos |-> index.pos, state |-> state, steps |-> <<>>])
        ELSE CompressedPanic(state))

\* fn prefix_decode_compressed; yields the tree, the cursor and the state.
prefix_decode_compressed(state, data, pos) ==
    With(read_marker(data, pos), LAMBDA marker:
        IF ~marker.ok
        THEN CompressedPanic(state)
        ELSE IF marker.kind = "List"
        THEN With(prefix_decode_compressed_children(
                      state, data, marker.pos, marker.n, <<>>),
                  LAMBDA out:
                      IF ~out.ok
                      THEN out
                      ELSE With(record(out.state, out.tree), LAMBDA recorded:
                               [out EXCEPT
                                   !.state = recorded,
                                   !.steps = Append(@,
                                       Step(out.tree, state, recorded, "List",
                                            SubSeq(data, pos + 1, out.pos),
                                            Len(out.steps)))]))
        ELSE IF marker.kind = "Value"
        THEN [ok |-> TRUE, tree |-> Value(marker.n), pos |-> marker.pos,
              state |-> state,
              steps |-> <<Step(Value(marker.n), state, state, "Value",
                               SubSeq(data, pos + 1, marker.pos), 0)>>]
        ELSE IF marker.n = TEMPLATE_USE_MARKER
        THEN With(ReadUint(data, marker.pos, 4), LAMBDA index:
                 IF ~index.ok
                 THEN CompressedPanic(state)      \* read_u32().unwrap()
                 ELSE IF index.n >= Len(state.templates)
                 THEN CompressedPanic(state)      \* index out of bounds
                 ELSE [ok |-> TRUE, tree |-> state.templates[index.n + 1],
                       pos |-> index.pos, state |-> state,
                       steps |-> <<Step(state.templates[index.n + 1], state,
                                        state, "Use",
                                        SubSeq(data, pos + 1, index.pos), 0)>>])
        ELSE CompressedPanic(state))              \* panic!()

\* for _i in 0..count { children.push(prefix_decode_compressed(state, input)) }:
\* in order, the count run as two halves one after the other.
prefix_decode_compressed_children(state, data, pos, count, children) ==
    IF count = 0
    THEN [ok |-> TRUE, tree |-> List(children), pos |-> pos, state |-> state,
          steps |-> <<>>]
    ELSE IF count = 1
    THEN With(prefix_decode_compressed(state, data, pos), LAMBDA child:
             IF ~child.ok
             THEN child
             ELSE [child EXCEPT !.tree = List(Append(children, child.tree))])
    ELSE With(prefix_decode_compressed_children(
                  state, data, pos, count \div 2, children),
              LAMBDA first:
                  IF ~first.ok
                  THEN first
                  ELSE With(prefix_decode_compressed_children(
                                first.state, data, first.pos,
                                count - count \div 2, first.tree.c),
                            LAMBDA rest:
                                [rest EXCEPT !.steps = first.steps \o @]))

\* ------------------------------------------------------------------------
\* Typed value trees (data_models/typed_value_tree.rs)
\* ------------------------------------------------------------------------
\* Concrete { type_name, content: StructOrValue::Struct(map) }. The map is
\* the sequence of its (name, children) entries in the order in which this
\* HashMap instance iterates them, which the program does not control.
TypedStruct(tn, map) ==
    [type_name |-> tn, isStruct |-> TRUE, map |-> map, val |-> <<>>]

\* Concrete { type_name, content: StructOrValue::Val(value) }
TypedVal(tn, value) ==
    [type_name |-> tn, isStruct |-> FALSE, map |-> <<>>, val |-> value]

\* One (k, children) pair of the HashMap.
Entry(k, children) == [name |-> k, children |-> children]

\* ------------------------------------------------------------------------
\* Typed value tree to leaf tree adapter (type_to_leaf.rs)
\* ------------------------------------------------------------------------
\* The adapter's views, in the shape of the other views: tree holds the
\* typed value, map or children the view wraps, data the bytes.
ByteLister(v) == [kind |-> "ByteLister", tree |-> List(<<>>), data |-> v]

ByteValue(b) == [kind |-> "ByteValue", tree |-> List(<<>>), data |-> <<b>>]

TypeViewer(u) == [kind |-> "TypeViewer", tree |-> u, data |-> <<>>]

ContentLister(u) == [kind |-> "ContentLister", tree |-> u, data |-> <<>>]

MapLister(map) == [kind |-> "MapLister", tree |-> map, data |-> <<>>]

ChildLister(children) == [kind |-> "ChildLister", tree |-> children, data |-> <<>>]

\* Mutant of make_byte_lister: the id is written big-endian.
make_byte_lister_be(n) ==
    ByteLister([i \in 1..16 |-> ToLittleEndian(n, 16)[17 - i]])

\* fn make_byte_lister: write_u128::<LittleEndian>(n)
make_byte_lister(n) == ByteLister(ToLittleEndian(n, 16))

\* impl View for ByteLister
ByteListerVisit(v) == Visited([i \in 1..Len(v) |-> visit_list(ByteValue(v[i]))])

\* impl View for ByteValue
ByteValueVisit(b) == Visited(<<visit_value(b)>>)

\* TypeGetter: the type name either callback of the TypeView hands over.
TypeGetter(u) == u.type_name

\* impl View for TypeViewer
TypeViewerVisit(u) ==
    Visited(<<visit_list(make_byte_lister(TypeGetter(u))),
              visit_list(ContentLister(u))>>)

\* Mutant of ContentListerVisit: the map entries are listed in Content
\* itself, without the map marker list.
ContentListerVisit_no_marker(u) ==
    IF u.isStruct
    THEN Visited([i \in 1..(2 * Len(u.map)) |->
             IF i % 2 = 1
             THEN visit_list(make_byte_lister(u.map[(i + 1) \div 2].name))
             ELSE visit_list(ChildLister(u.map[i \div 2].children))])
    ELSE Visited([i \in 1..Len(u.val) |-> visit_list(ByteValue(u.val[i]))])

\* impl View for ContentLister: ContentListerVisiter's visit_map / visit_value
ContentListerVisit(u) ==
    IF u.isStruct
    THEN Visited(<<visit_list(MapLister(u.map))>>)
    ELSE Visited([i \in 1..Len(u.val) |-> visit_list(ByteValue(u.val[i]))])

\* impl View for MapLister: for each entry the MapView visits, in its order,
\* MapListerVisiter::visit issues visit_list of the name bytes and then
\* visit_list of the children list.
MapListerVisit(map) ==
    Visited([i \in 1..(2 * Len(map)) |->
        IF i % 2 = 1
        THEN visit_list(make_byte_lister(map[(i + 1) \div 2].name))
        ELSE visit_list(ChildLister(map[i \div 2].children))])

\* impl View for ChildLister
ChildListerVisit(children) ==
    Visited([i \in 1..Len(children) |-> visit_list(TypeViewer(children[i]))])

\* ------------------------------------------------------------------------
\* Visiting any view, and view_to_concrete (data_models/leaf_tree.rs)
\* ------------------------------------------------------------------------
\* View::visit, by the kind of view; an encoded view decodes, then visits
\* (Decoder::visit_root of PrefixEncoding and PrefixCompressedEncoding).
Visit(view) ==
    IF view.kind = "Concrete"
    THEN ConcreteVisit(view.tree)
    ELSE IF view.kind = "BasicTree"
    THEN BasicTreeVisit(view.data)
    ELSE IF view.kind = "Prefix"
    THEN With(prefix_decode(view.data, 0), LAMBDA r:
             IF r.ok THEN ConcreteVisit(r.tree) ELSE VisitPanic(<<>>))
    ELSE IF view.kind = "ByteLister"
    THEN ByteListerVisit(view.data)
    ELSE IF view.kind = "ByteValue"
    THEN ByteValueVisit(view.data[1])
    ELSE IF view.kind = "TypeViewer"
    THEN TypeViewerVisit(view.tree)
    ELSE IF view.kind = "ContentLister"
    THEN ContentListerVisit(view.tree)
    ELSE IF view.kind = "MapLister"
    THEN MapListerVisit(view.tree)
    ELSE IF view.kind = "ChildLister"
    THEN ChildListerVisit(view.tree)
    ELSE IF view.kind = "Script"
    THEN Visited(view.data)
    ELSE With(prefix_decode_compressed(State_new, view.data, 0), LAMBDA r:
             IF r.ok THEN ConcreteVisit(r.tree) ELSE VisitPanic(<<>>))

CopyPanic == [ok |-> FALSE, tree |-> List(<<>>)]

RECURSIVE view_to_concrete(_), Out(_, _, _, _)
\* fn view_to_concrete: t.apply(Out(Concrete::List(vec![]))).0
view_to_concrete(view) ==
    With(Visit(view), LAMBDA visited:
        With(Out(visited.calls, 1, Len(visited.calls),
                 [ok |-> TRUE, tree |-> List(<<>>)]),
             LAMBDA out:
                 IF visited.ok /\ out.ok THEN out ELSE CopyPanic))

\* Mutant of Out: visit_value replaces whatever Out holds, with no check.
Out_value_overwrites(calls, lo, hi, self) ==
    IF lo > hi \/ ~self.ok
    THEN self
    ELSE IF lo < hi
    THEN With(Out(calls, lo, (lo + hi) \div 2, self),
              LAMBDA first: Out(calls, (lo + hi) \div 2 + 1, hi, first))
    ELSE IF calls[lo].isList
    THEN IF self.tree.isList
         THEN With(view_to_concrete(calls[lo].sub), LAMBDA sub:
                  IF sub.ok
                  THEN [ok |-> TRUE, tree |-> List(Append(self.tree.c, sub.tree))]
                  ELSE CopyPanic)
         ELSE CopyPanic
    ELSE [ok |-> TRUE, tree |-> Value(calls[lo].v)]

\* Mutant of Out: visit_list inserts the copied child at the front.
Out_push_front(calls, lo, hi, self) ==
    IF lo > hi \/ ~self.ok
    THEN self
    ELSE IF lo < hi
    THEN With(Out(calls, lo, (lo + hi) \div 2, self),
              LAMBDA first: Out(calls, (lo + hi) \div 2 + 1, hi, first))
    ELSE IF calls[lo].isList
    THEN IF self.tree.isList
         THEN With(view_to_concrete(calls[lo].sub), LAMBDA sub:
                  IF sub.ok
                  THEN [ok |-> TRUE, tree |-> List(<<sub.tree>> \o self.tree.c)]
                  ELSE CopyPanic)
         ELSE CopyPanic
    ELSE IF self.tree.isList /\ Len(self.tree.c) = 0
    THEN [ok |-> TRUE, tree |-> Value(calls[lo].v)]
    ELSE CopyPanic

\* impl Visitor for Out, applied to the callbacks calls[lo..hi] in order
\* (the range run as two halves one after the other); self is Out.0, or a
\* panic.
Out(calls, lo, hi, self) ==
    IF lo > hi \/ ~self.ok
    THEN self
    ELSE IF lo < hi
    THEN With(Out(calls, lo, (lo + hi) \div 2, self),
              LAMBDA first: Out(calls, (lo + hi) \div 2 + 1, hi, first))
    ELSE IF calls[lo].isList
    THEN IF self.tree.isList
         THEN With(view_to_concrete(calls[lo].sub), LAMBDA sub:
                  IF sub.ok
                  THEN [ok |-> TRUE, tree |-> List(Append(self.tree.c, sub.tree))]
                  ELSE CopyPanic)
         ELSE CopyPanic                           \* _ => panic!()
    ELSE IF self.tree.isList /\ Len(self.tree.c) = 0
    THEN [ok |-> TRUE, tree |-> Value(calls[lo].v)]
    ELSE CopyPanic                                \* assert_eq! / panic!()

\* ------------------------------------------------------------------------
\* Basic codec: the encoder's Output visitor
\* ------------------------------------------------------------------------
RECURSIVE Output(_, _, _, _)
\* Mutant of Output: LIST_END is written before the list's children.
Output_end_first(calls, lo, hi, self) ==
    IF lo > hi \/ ~self.ok
    THEN self
    ELSE IF lo < hi
    THEN With(Output(calls, lo, (lo + hi) \div 2, self),
              LAMBDA first: Output(calls, (lo + hi) \div 2 + 1, hi, first))
    ELSE IF calls[lo].isList
    THEN With(Visit(calls[lo].sub), LAMBDA sub:
             Output(sub.calls, 1, Len(sub.calls),
                    [self EXCEPT !.vec = @ \o <<BASIC_LIST_MARKER, BASIC_LIST_END>>]))
    ELSE [self EXCEPT !.vec = @ \o <<BASIC_VALUE_MARKER, calls[lo].v>>]

\* impl Visitor for Output, applied to the callbacks calls[lo..hi] in order
\* (the range run as two halves one after the other); self is the visitor's
\* vec, with whether a nested visit panicked.
Output(calls, lo, hi, self) ==
    IF lo > hi \/ ~self.ok
    THEN self
    ELSE IF lo < hi
    THEN With(Output(calls, lo, (lo + hi) \div 2, self),
              LAMBDA first: Output(calls, (lo + hi) \div 2 + 1, hi, first))
    ELSE IF calls[lo].isList
    THEN With(Visit(calls[lo].sub), LAMBDA sub:
             With(Output(sub.calls, 1, Len(sub.calls),
                         [self EXCEPT !.vec = Append(@, BASIC_LIST_MARKER)]),
                  LAMBDA inner:
                      [ok |-> sub.ok /\ inner.ok,
                       vec |-> Append(inner.vec, BASIC_LIST_END)]))
    ELSE [self EXCEPT !.vec = @ \o <<BASIC_VALUE_MARKER, calls[lo].v>>]

\* ------------------------------------------------------------------------
\* The Encoder / Decoder implementations
\* ------------------------------------------------------------------------
\* BasicEncoding::serialize: v.apply(Output { vec: vec![] }).vec
BasicEncoding_serialize(view) ==
    With(Visit(view), LAMBDA visited:
        With(Output(visited.calls, 1, Len(visited.calls),
                    [ok |-> TRUE, vec |-> <<>>]),
             LAMBDA out:
                 [ok |-> visited.ok /\ out.ok, vec |-> out.vec,
                  state |-> State_new, steps |-> <<>>]))

\* PrefixEncoding::serialize
PrefixEncoding_serialize(view) ==
    With(view_to_concrete(view), LAMBDA c:
        IF c.ok
        THEN [ok |-> TRUE, vec |-> prefix_encode(c.tree, <<>>),
              state |-> State_new, steps |-> <<>>]
        ELSE [ok |-> FALSE, vec |-> <<>>, state |-> State_new, steps |-> <<>>])

\* PrefixCompressedEncoding::serialize; state is the dictionary it drops.
PrefixCompressedEncoding_serialize(view) ==
    With(view_to_concrete(view), LAMBDA c:
        IF c.ok
        THEN With(prefix_encode_compressed(State_new, c.tree, <<>>), LAMBDA r:
                 [ok |-> TRUE, vec |-> r.out, state |-> r.state,
                  steps |-> r.steps])
        ELSE [ok |-> FALSE, vec |-> <<>>, state |-> State_new, steps |-> <<>>])

\* Decoder::visit_root(data, v) with v the visitor of view_to_concrete:
\* the tree the caller materializes, or a panic.
BasicEncoding_visit_root(data) == view_to_concrete(BasicTree(data))

PrefixEncoding_visit_root(data) == view_to_concrete(PrefixEncoded(data))

PrefixCompressedEncoding_visit_root(data) ==
    view_to_concrete(PrefixCompressedEncoded(data))

\* ------------------------------------------------------------------------
\* State machine
\* ------------------------------------------------------------------------
VARIABLES
    source,     \* "tree": a tree is serialized, then decoded; "bytes": a decoder
                \* is handed raw bytes; "calls": a sequence of calls (SpecCalls)
    input,      \* the concrete tree handed to serialize
    pc,         \* "start" | "serialized" | "received" | "visited" | "panicked"
    codec,      \* the codec the calls are made on
    data,       \* the bytes serialize returned, or the raw bytes received
    encState,   \* the dictionary the encoder held when serialize finished
    decState,   \* the dictionary the decoder held when visit_root finished
    rootCalls,  \* the callbacks visit_root issued on the caller's visitor
    output,     \* [ok, tree]: what the caller's view_to_concrete materialized
    log,        \* SpecCalls: the calls made so far on the codec instance
    typed,      \* the typed value tree behind the TypeViewer, when source = "typed"
    script,     \* the callbacks of the scripted view, when source = "script"
    steps       \* the returns of prefix_encode_compressed / prefix_decode_compressed
                \* made by the last serialize or visit_root, in order

vars ==
    <<source, input, pc, codec, data, encState, decState, rootCalls, output, log,
      typed, script, steps>>

\* The typed value of the runs that have none.
NoTyped == TypedVal(0, <<>>)

\* Field ids of the typed inputs: one of them takes two bytes.
FieldIds == {2, 257}

\* The typed nodes found as children: an empty leaf, an empty struct of the
\* same type, and a struct with one field holding one leaf.
ChildNodes ==
    { TypedVal(3, <<>>),
      TypedStruct(3, <<>>),
      TypedStruct(258, <<Entry(2, <<TypedVal(3, <<12>>)>>)>>) }

ChildLists == UNION {[1..n -> ChildNodes] : n \in 0..MaxChildren}

\* The child lists of the second entry visited: of at most one node.
ShortChildLists == {c \in ChildLists : Len(c) <= 1}

\* HashMaps over the field ids, in each of their iteration orders.
Maps ==
    {<<>>}
    \cup {<<Entry(k, c)>> : k \in FieldIds, c \in ChildLists}
    \cup UNION {{<<Entry(k1, c1), Entry(k2, c2)>> :
                    k2 \in FieldIds \ {k1},
                    c1 \in ChildLists, c2 \in ShortChildLists}
                 : k1 \in FieldIds}

TypedTrees ==
    {TypedVal(3, <<>>), TypedVal(3, <<12>>), TypedVal(258, <<1, 2>>)}
    \cup {TypedStruct(3, m) : m \in Maps}

Codecs == {"Basic", "Prefix", "PrefixCompressed"}

EmptyState == [templates |-> <<>>, template_map |-> <<>>]

NoOutput == [ok |-> FALSE, tree |-> List(<<>>)]

\* Bytes of the raw inputs: every marker of the three grammars, inline list
\* markers, and a plain payload byte.
RawBytes == {0, 1, 2, 4, 12, 128, 129, 130}

RawInputs == UNION {[1..n -> RawBytes] : n \in 0..MaxRawLen}

\* Encoder::serialize of the named codec.
serialize(name, view) ==
    IF name = "Basic"
    THEN BasicEncoding_serialize(view)
    ELSE IF name = "Prefix"
    THEN PrefixEncoding_serialize(view)
    ELSE PrefixCompressedEncoding_serialize(view)

\* The trees whose encodings are made into malformed inputs.
TamperTrees == (UNION {TreesOfSize(n) : n \in 1..MaxCutNodes}) \cup Scenarios

\* The encoding of a tree by a codec.
Bytes(name, t) == serialize(name, ConcreteView(t)).vec

\* Truncated input: every proper prefix of an encoding.
Truncations(name, t) ==
    {SubSeq(Bytes(name, t), 1, n) : n \in 0..(Len(Bytes(name, t)) - 1)}

\* All eight bytes of the largest u64 count.
MaxCount == [i \in 1..8 |-> 255]

\* Count overflow: the encoding of a list, its marker declaring one or two
\* children more than follow, or u64::MAX children.
Overcounts(name, t) ==
    LET rest == SubSeq(Bytes(name, t),
                       Len(write_list_marker(<<>>, Len(t.c))) + 1,
                       Len(Bytes(name, t)))
    IN  {write_list_marker(<<>>, Len(t.c) + j) \o rest : j \in 1..2}
            \cup {<<LIST_MARKER>> \o MaxCount \o rest}

\* Template indices written after the children of a list.
UseIndices == {0, 1, 2, 256}

\* The compressed encoding of a list, its marker declaring one more child
\* and that child written as a use of template k.
WithTemplateUse(t, k) ==
    LET rest == SubSeq(Bytes("PrefixCompressed", t),
                       Len(write_list_marker(<<>>, Len(t.c))) + 1,
                       Len(Bytes("PrefixCompressed", t)))
    IN  write_list_marker(<<>>, Len(t.c) + 1) \o rest
            \o <<TEMPLATE_USE_MARKER>> \o ToLittleEndian(k, 4)

\* Bytes that are no marker of a codec's grammar.
UnknownMarkers(name) ==
    IF name = "Basic"
    THEN {3, 12}
    ELSE IF name = "Prefix"
    THEN {2, 4, 127}
    ELSE {2, 127}

\* The length of the item that starts with marker byte b in an encoding.
ItemLength(name, b) ==
    IF name = "Basic"
    THEN IF b = BASIC_VALUE_MARKER THEN 2 ELSE 1
    ELSE IF b = LIST_MARKER
    THEN 9
    ELSE IF b = VALUE_MARKER
    THEN 2
    ELSE IF b = TEMPLATE_USE_MARKER
    THEN 5
    ELSE 1

RECURSIVE MarkerPositions(_, _, _)
\* The 1-based positions, from pos on, at which an encoding holds a marker.
MarkerPositions(name, bytes, pos) ==
    IF pos > Len(bytes)
    THEN {}
    ELSE {pos} \cup MarkerPositions(name, bytes,
                                    pos + ItemLength(name, bytes[pos]))

ReplaceAt(bytes, q, u) == [i \in 1..Len(bytes) |-> IF i = q THEN u ELSE bytes[i]]

\* Unknown marker: an encoding with one marker replaced by a byte that is no
\* marker of the grammar; for Basic also LIST_END as the first byte.
Corruptions(name, t) ==
    {ReplaceAt(Bytes(name, t), q, u) :
        q \in MarkerPositions(name, Bytes(name, t), 1),
        u \in UnknownMarkers(name)}
    \cup (IF name = "Basic" /\ Bytes(name, t) # <<>>
          THEN {ReplaceAt(Bytes(name, t), 1, BASIC_LIST_END)}
          ELSE {})

\* Bytes that follow an encoding: the markers of a long list, of a value,
\* of a template use (unknown to Prefix) and of an inline list.
TrailBytes == {0, 1, 4, 129}

\* The trees whose encodings are followed by more bytes.
TrailTrees == (UNION {TreesOfSize(n) : n \in 1..MaxTrailNodes}) \cup Scenarios

Trailers == UNION {[1..n -> TrailBytes] : n \in 1..MaxTrail}

\* An encoding of the tree input followed by more bytes.
InitTrailing ==
    /\ source = "trailing"
    /\ input \in TrailTrees
    /\ pc = "received"
    /\ codec \in {"Prefix", "PrefixCompressed"}
    /\ data \in {Bytes(codec, input) \o s : s \in Trailers}

\* A typed value tree to flatten and serialize.
InitTyped ==
    /\ source = "typed"
    /\ typed \in TypedTrees
    /\ input = List(<<>>)
    /\ pc = "typed"
    /\ codec = "none"
    /\ data = <<>>

\* The callbacks of the scripted views: values, an empty list, a list that
\* is a value, and a list whose own callbacks mix a value and a list.
ScriptCalls ==
    { visit_value(2),
      visit_value(12),
      visit_list(ConcreteView(List(<<>>))),
      visit_list(ConcreteView(Value(12))),
      visit_list(ScriptView(<<visit_value(2), visit_list(ConcreteView(List(<<>>)))>>)) }

Scripts == UNION {[1..n -> ScriptCalls] : n \in 0..MaxScript}

\* A view of any implementation to copy or serialize.
InitScript ==
    /\ source = "script"
    /\ script \in Scripts
    /\ input = List(<<>>)
    /\ pc = "start"
    /\ codec = "none"
    /\ data = <<>>

\* The leaf view handed to serialize.
InputView ==
    IF source = "typed"
    THEN TypeViewer(typed)
    ELSE IF source = "script"
    THEN ScriptView(script)
    ELSE ConcreteView(input)

\* A tree to serialize.
InitTree ==
    /\ source = "tree"
    /\ input \in Trees
    /\ pc = "start"
    /\ codec = "none"
    /\ data = <<>>

\* Arbitrary bytes handed to a decoder.
InitBytes ==
    /\ source = "bytes"
    /\ input = List(<<>>)
    /\ pc = "received"
    /\ codec \in Codecs
    /\ data \in RawInputs

\* A truncated encoding of the tree input.
InitTruncated ==
    /\ source = "truncated"
    /\ input \in TamperTrees \cup {List(Repeat(Value(12), MaxWide))}
    /\ pc = "received"
    /\ codec \in Codecs
    /\ data \in Truncations(codec, input)

\* An encoding of the list input whose marker declares too many children.
InitOvercount ==
    /\ source = "overcount"
    /\ input \in {t \in TamperTrees : t.isList}
    /\ pc = "received"
    /\ codec \in {"Prefix", "PrefixCompressed"}
    /\ data \in Overcounts(codec, input)

\* A compressed encoding of the list input with a template use appended.
InitReference ==
    /\ source = "reference"
    /\ input \in {t \in TamperTrees : t.isList}
    /\ pc = "received"
    /\ codec = "PrefixCompressed"
    /\ data \in {WithTemplateUse(input, k) : k \in UseIndices}

\* An encoding of the tree input with one marker made unknown.
InitCorrupted ==
    /\ source = "corrupted"
    /\ input \in TamperTrees
    /\ pc = "received"
    /\ codec \in Codecs
    /\ data \in Corruptions(codec, input)

Init ==
    /\ \/ InitTyped /\ script = <<>>
       \/ InitScript /\ typed = NoTyped
       \/ /\ typed = NoTyped
          /\ script = <<>>
          /\ \/ InitTree
             \/ InitBytes
             \/ InitTruncated
             \/ InitOvercount
             \/ InitReference
             \/ InitCorrupted
             \/ InitTrailing
    /\ steps = <<>>
    /\ encState = EmptyState
    /\ decState = EmptyState
    /\ rootCalls = <<>>
    /\ output = NoOutput
    /\ log = <<>>

\* The view an EncodedLeafTree of the named codec is: visit = visit_root.
Encoded(name, bytes) ==
    IF name = "Basic"
    THEN BasicTree(bytes)
    ELSE IF name = "Prefix"
    THEN PrefixEncoded(bytes)
    ELSE PrefixCompressedEncoded(bytes)

\* The dictionary the decoder of the named codec holds when visit_root ends.
DecoderState(name, bytes) ==
    IF name = "PrefixCompressed"
    THEN prefix_decode_compressed(State_new, bytes, 0).state
    ELSE EmptyState

\* The returns of prefix_decode_compressed made by visit_root.
DecoderSteps(name, bytes) ==
    IF name = "PrefixCompressed"
    THEN prefix_decode_compressed(State_new, bytes, 0).steps
    ELSE <<>>

\* A serialize call of one codec on the input tree.
Serialize(name) ==
    /\ pc = "start"
    /\ \E r \in {serialize(name, InputView)} :
          /\ codec' = name
          /\ data' = r.vec
          /\ encState' = r.state
          /\ steps' = r.steps
          /\ pc' = IF r.ok THEN "serialized" ELSE "panicked"
    /\ UNCHANGED <<source, input, decState, rootCalls, output, log, typed, script>>

BasicSerialize == Serialize("Basic")

PrefixSerialize == Serialize("Prefix")

PrefixCompressedSerialize == Serialize("PrefixCompressed")

\* A visit_root call of one codec on the bytes at hand, with the visitor of
\* view_to_concrete.
VisitRoot(name) ==
    /\ pc \in {"serialized", "received"}
    /\ codec = name
    /\ rootCalls' = Visit(Encoded(name, data)).calls
    /\ output' = view_to_concrete(Encoded(name, data))
    /\ decState' = DecoderState(name, data)
    /\ steps' = DecoderSteps(name, data)
    /\ pc' = IF output'.ok THEN "visited" ELSE "panicked"
    /\ UNCHANGED <<source, input, codec, data, encState, log, typed, script>>

\* view_to_concrete of the TypeViewer over the typed value tree: the leaf
\* tree the adapter exposes.
Flatten ==
    /\ pc = "typed"
    /\ \E r \in {view_to_concrete(TypeViewer(typed))} :
          /\ input' = r.tree
          /\ pc' = IF r.ok THEN "start" ELSE "panicked"
    /\ UNCHANGED <<source, codec, data, encState, decState, rootCalls, output,
                   log, typed, script, steps>>

\* view_to_concrete of a concrete tree, or of a scripted view.
ViewToConcrete ==
    /\ pc = "start"
    /\ source \in {"tree", "script"}
    /\ output' = view_to_concrete(InputView)
    /\ pc' = IF output'.ok THEN "copied" ELSE "panicked"
    /\ UNCHANGED <<source, input, codec, data, encState, decState, rootCalls,
                   log, typed, script, steps>>

\* view_to_concrete of the copy.
ViewToConcreteAgain ==
    /\ pc = "copied"
    /\ output' = view_to_concrete(ConcreteView(output.tree))
    /\ pc' = IF output'.ok THEN "recopied" ELSE "panicked"
    /\ UNCHANGED <<source, input, codec, data, encState, decState, rootCalls,
                   log, typed, script, steps>>

BasicVisitRoot == VisitRoot("Basic")

PrefixVisitRoot == VisitRoot("Prefix")

PrefixCompressedVisitRoot == VisitRoot("PrefixCompressed")

Next ==
    \/ BasicSerialize
    \/ PrefixSerialize
    \/ PrefixCompressedSerialize
    \/ BasicVisitRoot
    \/ PrefixVisitRoot
    \/ PrefixCompressedVisitRoot
    \/ Flatten
    \/ ViewToConcrete
    \/ ViewToConcreteAgain

Spec == Init /\ [][Next]_vars

\* ------------------------------------------------------------------------
\* State machine: a sequence of calls on one codec instance
\* ------------------------------------------------------------------------
\* Trees of the calls: with and without repeated lists.
CallTrees ==
    { Value(12),
      List(<<>>),
      L(<<12>>),
      List(<<L(<<12>>), L(<<12>>)>>),
      List(<<List(<<>>), L(<<12>>), List(<<>>)>>) }

InitCalls ==
    /\ source = "calls"
    /\ input = List(<<>>)
    /\ pc = "idle"
    /\ codec \in Codecs
    /\ data = <<>>
    /\ encState = EmptyState
    /\ decState = EmptyState
    /\ rootCalls = <<>>
    /\ output = NoOutput
    /\ log = <<>>
    /\ typed = NoTyped
    /\ script = <<>>
    /\ steps = <<>>

\* Mutant of CallSerialize: the dictionary is a field of the codec instance,
\* kept from one serialize call to the next.
CallSerialize_kept_state ==
    /\ Len(log) < MaxCalls
    /\ \E t \in CallTrees :
          \E r \in {IF codec = "PrefixCompressed"
                    THEN With(prefix_encode_compressed(encState, t, <<>>),
                              LAMBDA e: [ok |-> TRUE, vec |-> e.out,
                                         state |-> e.state,
                                         steps |-> e.steps])
                    ELSE serialize(codec, ConcreteView(t))} :
              /\ input' = t
              /\ data' = r.vec
              /\ encState' = r.state
              /\ steps' = r.steps
              /\ log' = Append(log, [op |-> "serialize", tree |-> t,
                                     data |-> r.vec, ok |-> r.ok,
                                     start |-> encState,
                                     state |-> r.state])
    /\ UNCHANGED <<source, pc, codec, decState, rootCalls, output, typed, script>>

\* One more serialize call on the instance, on any of the trees.
CallSerialize ==
    /\ Len(log) < MaxCalls
    /\ \E t \in CallTrees :
          \E r \in {serialize(codec, ConcreteView(t))} :
              /\ input' = t
              /\ data' = r.vec
              /\ encState' = r.state
              /\ steps' = r.steps
              /\ log' = Append(log, [op |-> "serialize", tree |-> t,
                                     data |-> r.vec, ok |-> r.ok,
                                     start |-> State_new,
                                     state |-> r.state])
    /\ UNCHANGED <<source, pc, codec, decState, rootCalls, output, typed, script>>

\* One more visit_root call on the instance, on the encoding of any of the
\* trees.
CallVisitRoot ==
    /\ Len(log) < MaxCalls
    /\ \E t \in CallTrees :
          \E d \in {serialize(codec, ConcreteView(t)).vec} :
              /\ data' = d
              /\ rootCalls' = Visit(Encoded(codec, d)).calls
              /\ output' = view_to_concrete(Encoded(codec, d))
              /\ decState' = DecoderState(codec, d)
              /\ steps' = DecoderSteps(codec, d)
              /\ log' = Append(log, [op |-> "visit_root", tree |-> output'.tree,
                                     data |-> d, ok |-> output'.ok,
                                     start |-> State_new,
                                     state |-> decState'])
    /\ UNCHANGED <<source, input, pc, codec, encState, typed, script>>

NextCalls ==
    \/ CallSerialize
    \/ CallVisitRoot

SpecCalls == InitCalls /\ [][NextCalls]_vars

\* ------------------------------------------------------------------------
\* Properties
\* ------------------------------------------------------------------------
\* A tree went through serialize of the named codec.
FromTree(name) == source = "tree" /\ codec = name

\* The visit_root call on the bytes has ended, normally or by a panic.
Decoded == pc \in {"visited", "panicked"}

FourSingletons == List(<<L(<<12>>), L(<<12>>), L(<<12>>), L(<<12>>)>>)

RepeatedUniqueMix == List(<<L(<<12>>), L(<<12, 12>>), L(<<12>>), L(<<13>>)>>)

NestedEmpties == List(<<List(<<List(<<>>)>>), List(<<List(<<>>)>>), List(<<>>)>>)

\* C1: PrefixCompressed round-trip. For every concrete tree t, the tree
\* materialized from PrefixCompressedEncoding.visit_root on
\* PrefixCompressedEncoding.serialize(t) is t, and neither call panics.
RoundTripPrefixCompressed ==
    FromTree("PrefixCompressed") /\ pc # "start" =>
        /\ pc # "panicked"
        /\ pc = "visited" => output = [ok |-> TRUE, tree |-> input]

\* A tree with repeated and unique sub-lists has made the round trip, its
\* third child written as a template use.
RoundTripPrefixCompressedWitness ==
    /\ FromTree("PrefixCompressed")
    /\ pc = "visited"
    /\ input = RepeatedUniqueMix
    /\ TEMPLATE_USE_MARKER \in {data[i] : i \in 1..Len(data)}
    /\ output.tree = input

\* C2: Prefix round-trip. For every concrete tree t, the tree materialized
\* from PrefixEncoding.visit_root on PrefixEncoding.serialize(t) is t, and
\* neither call panics.
RoundTripPrefix ==
    FromTree("Prefix") /\ pc # "start" =>
        /\ pc # "panicked"
        /\ pc = "visited" => output = [ok |-> TRUE, tree |-> input]

\* A tree with empty lists below the root has made the round trip.
RoundTripPrefixWitness ==
    /\ FromTree("Prefix")
    /\ pc = "visited"
    /\ input = NestedEmpties
    /\ data = <<131, 129, 128, 129, 128, 128>>
    /\ output.tree = input

\* C3: Basic round-trip. For every concrete tree t, trees with an empty list
\* below the root included, BasicEncoding.visit_root on
\* BasicEncoding.serialize(t) completes without failure and materializes t.
RoundTripBasic ==
    FromTree("Basic") /\ pc # "start" =>
        /\ pc # "panicked"
        /\ pc = "visited" => output = [ok |-> TRUE, tree |-> input]

\* C4: dictionary lock-step. When the PrefixCompressed decoder finishes the
\* bytes serialize(t) produced, its ordered list of templates is the one the
\* encoder held when serialize(t) finished, index for index.
DictionaryLockStep ==
    FromTree("PrefixCompressed") /\ Decoded =>
        /\ pc = "visited"
        /\ Len(decState.templates) = Len(encState.templates)
        /\ \A i \in 1..Len(encState.templates) :
              decState.templates[i] = encState.templates[i]

\* Both sides ended with the same three templates after a tree that holds
\* six lists, three of them back-references.
DictionaryLockStepWitness ==
    /\ FromTree("PrefixCompressed")
    /\ pc = "visited"
    /\ input = NestedEmpties
    /\ encState.templates = <<List(<<>>), List(<<List(<<>>)>>), NestedEmpties>>
    /\ decState.templates = encState.templates

RECURSIVE BasicWire(_), BasicWireChildren(_, _, _)
\* The documented Basic grammar: [0x01, b] for Value(b); for a list, for each
\* child in order, 0x00, the child's bytes, 0x02.
BasicWire(t) ==
    IF t.isList
    THEN BasicWireChildren(t.c, 1, Len(t.c))
    ELSE <<1, t.v>>

BasicWireChildren(list, lo, hi) ==
    IF lo > hi
    THEN <<>>
    ELSE IF lo = hi
    THEN <<0>> \o BasicWire(list[lo]) \o <<2>>
    ELSE With(BasicWireChildren(list, lo, (lo + hi) \div 2),
              LAMBDA first:
                  first \o BasicWireChildren(list, (lo + hi) \div 2 + 1, hi))

\* C6: Basic wire bytes. BasicEncoding.serialize of Value(b) is [0x01, b] and
\* of List(c1..cn) the concatenation, for each child in order, of 0x00,
\* serialize(ci), 0x02; with the three documented examples.
BasicWireBytes ==
    FromTree("Basic") /\ pc # "start" =>
        /\ data = BasicWire(input)
        /\ input = Value(12) => data = <<1, 12>>
        /\ input = L(<<12>>) => data = <<0, 1, 12, 2>>
        /\ input = L(<<12, 13>>) => data = <<0, 1, 12, 2, 0, 1, 13, 2>>

\* The list of two values was serialized to the documented eight bytes.
BasicWireBytesWitness ==
    /\ FromTree("Basic")
    /\ pc = "serialized"
    /\ input = L(<<12, 13>>)
    /\ data = <<0, 1, 12, 2, 0, 1, 13, 2>>

\* C7: Basic empty-root quirk. BasicEncoding.serialize(List([])) is the
\* empty byte sequence, and BasicEncoding.visit_root on the empty byte
\* sequence issues no visitor callback and so materializes List([]).
BasicEmptyRoot ==
    codec = "Basic" =>
        /\ source = "tree" /\ pc # "start" /\ input = List(<<>>)
           => data = <<>>
        /\ Decoded /\ data = <<>>
           => /\ rootCalls = <<>>
              /\ output = [ok |-> TRUE, tree |-> List(<<>>)]

\* The empty root list went to no bytes and came back from no callback.
BasicEmptyRootWitness ==
    /\ FromTree("Basic")
    /\ pc = "visited"
    /\ input = List(<<>>)
    /\ data = <<>>
    /\ rootCalls = <<>>
    /\ output.tree = List(<<>>)

RECURSIVE ListLengths(_)
ListLengths(t) ==
    IF t.isList
    THEN {Len(t.c)} \cup UNION {ListLengths(t.c[i]) : i \in 1..Len(t.c)}
    ELSE {}

\* One item of the prefix grammars read at 0-based position st.pos of the
\* bytes: a value, a template use, or a list marker, whose count is noted
\* with its form.
ScanStep(bytes, st) ==
    IF ~st.ok \/ st.pos >= Len(bytes)
    THEN st
    ELSE LET m == bytes[st.pos + 1]
         IN  IF m = 0
             THEN IF st.pos + 9 > Len(bytes)
                  THEN [st EXCEPT !.ok = FALSE]
                  ELSE [st EXCEPT
                          !.long = @ \cup {FromLittleEndian(
                                      SubSeq(bytes, st.pos + 2, st.pos + 9))},
                          !.pos = @ + 9]
             ELSE IF m = 1
             THEN IF st.pos + 2 > Len(bytes)
                  THEN [st EXCEPT !.ok = FALSE]
                  ELSE [st EXCEPT !.pos = @ + 2]
             ELSE IF m = 4
             THEN IF st.pos + 5 > Len(bytes)
                  THEN [st EXCEPT !.ok = FALSE]
                  ELSE [st EXCEPT !.pos = @ + 5]
             ELSE IF m >= 128
             THEN [st EXCEPT !.inline = @ \cup {m - 128}, !.pos = @ + 1]
             ELSE [st EXCEPT !.ok = FALSE]

RECURSIVE ScanSteps(_, _, _)
\* n items read one after the other, as two halves.
ScanSteps(bytes, st, n) ==
    IF n = 0
    THEN st
    ELSE IF n = 1
    THEN ScanStep(bytes, st)
    ELSE With(ScanSteps(bytes, st, n \div 2),
              LAMBDA first: ScanSteps(bytes, first, n - n \div 2))

\* The list markers of a whole output: the counts written inline and the
\* counts written in the long form.
ListMarkers(bytes) ==
    ScanSteps(bytes, [pos |-> 0, ok |-> TRUE, inline |-> {}, long |-> {}],
              Len(bytes))

\* C9: canonical list markers. In every output of PrefixEncoding.serialize
\* and PrefixCompressedEncoding.serialize the lists of length at most 127
\* are written with the inline marker 0x80 + n, and the long form (0x00 and
\* an 8-byte count) appears only for lists of length 128 or more.
CanonicalListMarkers ==
    source = "tree" /\ codec \in {"Prefix", "PrefixCompressed"} /\ pc # "start" =>
        \E m \in {ListMarkers(data)} :
            /\ m.ok
            /\ m.pos = Len(data)
            /\ \A n \in m.long : n >= 128
            /\ m.inline = {n \in ListLengths(input) : n <= 127}
            /\ m.long = {n \in ListLengths(input) : n >= 128}

\* A list of 128 values, one past the inline range, was written by the
\* compressing encoder in the long form.
CanonicalListMarkersWitness ==
    /\ FromTree("PrefixCompressed")
    /\ pc = "serialized"
    /\ input = List(Repeat(Value(12), 128))
    /\ SubSeq(data, 1, 9) = <<0, 128, 0, 0, 0, 0, 0, 0, 0>>
    /\ Len(data) = 9 + 2 * 128
    /\ ListMarkers(data).long = {128}

TemplateReferenceOutOfRange ==
    source = "reference" /\ Decoded =>
        \E k \in {FromLittleEndian(SubSeq(data, Len(data) - 3, Len(data)))} :
        \E enc \in {serialize("PrefixCompressed", ConcreteView(input)).state} :
            /\ k >= Len(enc.templates) - 1
               => pc = "panicked" /\ output = NoOutput
            /\ k < Len(enc.templates) - 1
               => /\ pc = "visited"
                  /\ output.tree = List(Append(input.c, enc.templates[k + 1]))

\* The decoder of the compressing codec read, as second child of a list,
\* a use of template 0 while nothing was recorded yet (index 0 is the one the
\* list being decoded gets), and panicked.
TemplateReferenceOutOfRangeWitness ==
    /\ source = "reference"
    /\ pc = "panicked"
    /\ input = L(<<12>>)
    /\ data = <<130, 1, 12, 4, 0, 0, 0, 0>>
    /\ ~output.ok

\* C12: truncated prefix input. visit_root of PrefixEncoding and of
\* PrefixCompressedEncoding panics, without a callback and without a tree,
\* on every proper prefix of an encoding and on a list whose marker declares
\* more children than follow.
TruncatedPrefixInput ==
    source \in {"truncated", "overcount"}
        /\ codec \in {"Prefix", "PrefixCompressed"} /\ Decoded
    => /\ pc = "panicked"
       /\ rootCalls = <<>>
       /\ output = NoOutput

\* The Prefix decoder was handed the encoding of List([Value(12), Value(13)])
\* cut inside its second child, and panicked.
TruncatedPrefixInputWitness ==
    /\ source = "truncated"
    /\ codec = "Prefix"
    /\ input = L(<<12, 13>>)
    /\ data = <<130, 1, 12, 1>>
    /\ pc = "panicked"

\* One byte of a Basic encoding read at st.pos: the nesting depth it leaves.
BasicDepthStep(bytes, st) ==
    IF ~st.ok \/ st.pos > Len(bytes)
    THEN st
    ELSE IF bytes[st.pos] = 0
    THEN [st EXCEPT !.depth = @ + 1, !.pos = @ + 1]
    ELSE IF bytes[st.pos] = 2
    THEN IF st.depth = 0
         THEN [st EXCEPT !.ok = FALSE]
         ELSE [st EXCEPT !.depth = @ - 1, !.pos = @ + 1]
    ELSE IF bytes[st.pos] = 1
    THEN [st EXCEPT !.pos = @ + 2]
    ELSE [st EXCEPT !.ok = FALSE]

RECURSIVE BasicDepthSteps(_, _, _)
BasicDepthSteps(bytes, st, n) ==
    IF n = 0
    THEN st
    ELSE IF n = 1
    THEN BasicDepthStep(bytes, st)
    ELSE With(BasicDepthSteps(bytes, st, n \div 2),
              LAMBDA first: BasicDepthSteps(bytes, first, n - n \div 2))

\* The bytes are a root list in which some LIST_MARKER is still open where
\* the input ends.
BasicUnclosed(bytes) ==
    /\ bytes # <<>>
    /\ bytes[1] = 0
    /\ \E st \in {BasicDepthSteps(bytes, [pos |-> 1, depth |-> 0, ok |-> TRUE],
                                  Len(bytes))} :
          st.ok /\ st.depth > 0

\* C13: truncated Basic input. When BasicEncoding.visit_root is given
\* non-empty bytes that end inside a list, a LIST_MARKER left without its
\* LIST_END, the decode panics and no tree is materialized.
TruncatedBasicInput ==
    codec = "Basic" /\ Decoded /\ BasicUnclosed(data) =>
        /\ pc = "panicked"
        /\ output = NoOutput

\* The Basic decoder was handed List([Value(12)]) without its LIST_END, and
\* panicked after the callback for the child.
TruncatedBasicInputWitness ==
    /\ source = "truncated"
    /\ codec = "Basic"
    /\ input = L(<<12>>)
    /\ data = <<0, 1, 12>>
    /\ Len(rootCalls) = 1
    /\ pc = "panicked"

\* C14: unknown marker. A decoder that reads, where a marker is expected, a
\* byte that is no marker of its grammar panics and yields no tree.
UnknownMarkerAborts ==
    source = "corrupted" /\ Decoded =>
        /\ pc = "panicked"
        /\ output = NoOutput

\* The compressing decoder read 0x7F where the marker of a child was
\* expected, and panicked.
UnknownMarkerAbortsWitness ==
    /\ source = "corrupted"
    /\ codec = "PrefixCompressed"
    /\ input = L(<<12>>)
    /\ data = <<129, 127, 12>>
    /\ pc = "panicked"

\* Byte i (from 1) of the little-endian form of an id below 2^24.
ByteOf(n, i) ==
    IF i = 1
    THEN n % 256
    ELSE IF i = 2
    THEN (n \div 256) % 256
    ELSE IF i = 3
    THEN (n \div 65536) % 256
    ELSE 0

\* The documented id list: 16 Value leaves, the little-endian bytes of n.
IdBytes(n) == List([i \in 1..16 |-> Value(ByteOf(n, i))])

\* The typed value tree has been flattened by the adapter into input.
Flattened == source = "typed" /\ pc # "typed"

RECURSIVE AdapterNodeShape(_, _)
\* The leaf tree of a typed node is [TypeIdBytes, Content], and so is the
\* leaf tree of every typed node below it (the children of the j-th entry
\* visited are the children of child 2j of the map marker list).
AdapterNodeShape(u, leaf) ==
    /\ leaf.isList
    /\ Len(leaf.c) = 2
    /\ leaf.c[1] = IdBytes(u.type_name)
    /\ leaf.c[2].isList
    /\ u.isStruct =>
          /\ Len(leaf.c[2].c) = 1
          /\ Len(leaf.c[2].c[1].c) = 2 * Len(u.map)
          /\ \A j \in 1..Len(u.map) :
                /\ Len(leaf.c[2].c[1].c[2 * j].c) = Len(u.map[j].children)
                /\ \A i \in 1..Len(u.map[j].children) :
                      AdapterNodeShape(u.map[j].children[i],
                                       leaf.c[2].c[1].c[2 * j].c[i])

\* C15: adapter node shape. For every typed value node, struct or leaf, the
\* leaf tree TypeViewer exposes is a list of exactly two children, the 16
\* Value leaves of the little-endian type id and a Content list.
AdapterNodeShapeHolds == Flattened => AdapterNodeShape(typed, input)

\* A struct with a two-byte type id below it was flattened: the root is
\* [IdBytes(3), Content] and the nested struct starts with the bytes 2, 1.
AdapterNodeShapeWitness ==
    /\ Flattened
    /\ pc = "start"
    /\ typed = TypedStruct(3, <<Entry(257,
                   <<TypedStruct(258, <<Entry(2, <<TypedVal(3, <<12>>)>>)>>)>>)>>)
    /\ input.c[1] = IdBytes(3)
    /\ input.c[2].c[1].c[2].c[1].c[1].c[1] = Value(2)
    /\ input.c[2].c[1].c[2].c[1].c[1].c[2] = Value(1)

\* C16: adapter map-entry shape. For a struct with n map entries, Content
\* has a single child, the map marker list, whose children are exactly n
\* entries, each a two-element list [FieldIdBytes, ChildrenList].
MapEntryShape ==
    Flattened /\ typed.isStruct =>
        /\ Len(input.c[2].c) = 1
        /\ Len(input.c[2].c[1].c) = Len(typed.map)
        /\ \A j \in 1..Len(typed.map) :
              /\ input.c[2].c[1].c[j].isList
              /\ Len(input.c[2].c[1].c[j].c) = 2
              /\ input.c[2].c[1].c[j].c[1] = IdBytes(typed.map[j].name)
              /\ input.c[2].c[1].c[j].c[2].isList
              /\ Len(input.c[2].c[1].c[j].c[2].c) = Len(typed.map[j].children)

\* The leaf tree of a typed value tree.
Flat(u) == view_to_concrete(TypeViewer(u)).tree

\* C17: empty leaf versus empty struct. A leaf with an empty payload
\* flattens to Content = List([]), a struct without entries to Content =
\* List([List([])]); the two never flatten to equal leaf trees when their
\* type ids are equal.
EmptyLeafVersusEmptyStruct ==
    Flattened =>
        /\ ~typed.isStruct /\ typed.val = <<>>
           => /\ input.c[2] = List(<<>>)
              /\ input # Flat(TypedStruct(typed.type_name, <<>>))
        /\ typed.isStruct /\ typed.map = <<>>
           => /\ input.c[2] = List(<<List(<<>>)>>)
              /\ input # Flat(TypedVal(typed.type_name, <<>>))

\* The empty struct of type 3 was flattened to a Content of one empty list.
EmptyLeafVersusEmptyStructWitness ==
    /\ Flattened
    /\ pc = "start"
    /\ typed = TypedStruct(3, <<>>)
    /\ input = List(<<IdBytes(3), List(<<List(<<>>)>>)>>)

\* C18: adapter fidelity. The leaf tree the adapter produces for a typed
\* value tree survives every codec: serialized and decoded by Basic, Prefix
\* or PrefixCompressed it comes back equal, without a panic (which the
\* re-interpretation as a typed value tree needs).
AdapterFidelity ==
    Flattened /\ pc \notin {"start", "serialized"} =>
        /\ pc = "visited"
        /\ output = [ok |-> TRUE, tree |-> input]

Reversed(seq) == [i \in 1..Len(seq) |-> seq[Len(seq) + 1 - i]]

\* C19: canonical map-entry order. The leaf tree of a struct does not depend
\* on the order in which its MapView visits the entries: the same entries
\* visited in the reverse order flatten to the same leaf tree, and their
\* field ids are emitted in ascending order.
CanonicalMapOrder ==
    Flattened /\ typed.isStruct =>
        /\ input = Flat(TypedStruct(typed.type_name, Reversed(typed.map)))
        /\ \A i, j \in 1..Len(typed.map) :
              i < j /\ 2 * j - 1 <= Len(input.c[2].c[1].c)
              => \E a, b \in FieldIds :
                    /\ a < b
                    /\ input.c[2].c[1].c[2 * i - 1] = IdBytes(a)
                    /\ input.c[2].c[1].c[2 * j - 1] = IdBytes(b)

\* C20: view copy. For every concrete tree t, view_to_concrete(t) is t (an
\* empty list, which issues no callback, included), and copying the copy
\* gives the same tree again.
ViewCopy ==
    source = "tree" /\ pc \in {"copied", "recopied"}
    => output = [ok |-> TRUE, tree |-> input]

\* A tree with empty lists at three depths was copied, and the copy copied.
ViewCopyWitness ==
    /\ pc = "recopied"
    /\ input = NestedEmpties
    /\ output.tree = NestedEmpties

\* The callbacks of one level mix: a value comes with any other callback.
Mixed(calls) ==
    /\ Len(calls) >= 2
    /\ \E i \in 1..Len(calls) : ~calls[i].isList

\* The scripted view mixes callbacks at its root or at the root of one of
\* its lists.
MixedSomewhere ==
    \/ Mixed(script)
    \/ \E i \in 1..Len(script) :
          /\ script[i].isList
          /\ script[i].sub.kind = "Script"
          /\ Mixed(script[i].sub.data)

\* C21: mixed callbacks are rejected. When a view issues, at one level,
\* visit_value after a visit_list, visit_list after a visit_value, or
\* visit_value twice, view_to_concrete panics, and so do the serialize of
\* Prefix and of PrefixCompressed; none of them returns a tree or bytes.
MixedCallbacksRejected ==
    source = "script" /\ MixedSomewhere =>
        /\ pc \notin {"copied", "recopied"}
        /\ codec \in {"Prefix", "PrefixCompressed"} => pc = "panicked"
        /\ codec = "none" /\ pc # "start"
           => pc = "panicked" /\ output = CopyPanic

\* A view that issued a list and then a value was handed to Prefix
\* serialize, which panicked.
MixedCallbacksRejectedWitness ==
    /\ source = "script"
    /\ script = <<visit_list(ConcreteView(List(<<>>))), visit_value(12)>>
    /\ codec = "Prefix"
    /\ pc = "panicked"

\* The dictionaries seen by the last PrefixCompressed serialize or
\* visit_root: at the entry and the return of every call it made, and the
\* ones the encoder and the decoder were left with.
DictStates ==
    {encState, decState}
    \cup {steps[k].before : k \in 1..Len(steps)}
    \cup {steps[k].after : k \in 1..Len(steps)}

\* No two indices hold equal trees, and template_map is the inverse of
\* templates (indices from 0).
DictUnique(st) ==
    /\ \A i, j \in 1..Len(st.templates) :
          st.templates[i] = st.templates[j] => i = j
    /\ \A i \in 1..Len(st.templates) :
          /\ st.templates[i] \in DOMAIN st.template_map
          /\ st.template_map[st.templates[i]] = i - 1
    /\ Cardinality(DOMAIN st.template_map) = Len(st.templates)

\* C22: dictionary uniqueness. In every dictionary reached during a
\* PrefixCompressed encode or decode no two indices hold equal trees,
\* template_map maps templates[i] to i, both have the same number of
\* entries, and recording a tree already present changes nothing.
DictionaryUniqueness ==
    \A st \in DictStates :
        /\ DictUnique(st)
        /\ \A i \in 1..Len(st.templates) : record(st, st.templates[i]) = st

\* The encoder met the same list four times and holds it once, before the
\* root.
DictionaryUniquenessWitness ==
    /\ FromTree("PrefixCompressed")
    /\ pc = "serialized"
    /\ input = FourSingletons
    /\ encState.templates = <<L(<<12>>), FourSingletons>>
    /\ Len(steps) = 6
    /\ steps[3].arm = "Use"
    /\ steps[3].after = steps[3].before

RECURSIVE ListDescendants(_)
\* The List nodes that are proper descendants of a tree.
ListDescendants(t) ==
    UNION {(IF t.c[i].isList THEN {t.c[i]} ELSE {}) \cup ListDescendants(t.c[i])
           : i \in 1..Len(t.c)}

\* C23: post-order dictionary. In every dictionary reached during a
\* PrefixCompressed encode or decode, every List that is a proper descendant
\* of the entry at index i is itself an entry at a smaller index.
PostOrderDictionary ==
    \A st \in DictStates :
        \A i \in 1..Len(st.templates) :
            \A d \in ListDescendants(st.templates[i]) :
                \E j \in 1..(i - 1) : st.templates[j] = d

\* The decoder read lists nested three deep: the innermost is entry 0, the
\* root the last entry.
PostOrderDictionaryWitness ==
    /\ FromTree("PrefixCompressed")
    /\ pc = "visited"
    /\ input = NestedEmpties
    /\ decState.templates =
          <<List(<<>>), List(<<List(<<>>)>>), NestedEmpties>>

\* The dictionary a call held just before its own record, if any: the one
\* its last nested call returned, or the one it was entered with.
BeforeOwnRecord(k) ==
    IF steps[k].inner = 0 THEN steps[k].before ELSE steps[k - 1].after

\* C24: dictionary frame. Processing a Value, an encoder dictionary hit and
\* a decoder TEMPLATE_USE leave the dictionary unchanged; a spelled-out List
\* appends at most one entry, itself; nothing else changes the dictionary
\* between calls, so no entry is ever a Value.
DictionaryFrame ==
    /\ \A k \in 1..Len(steps) :
          /\ steps[k].arm \in {"Value", "Use"} => steps[k].after = steps[k].before
          /\ steps[k].arm = "List" =>
                steps[k].after.templates \in
                    { BeforeOwnRecord(k).templates,
                      Append(BeforeOwnRecord(k).templates, steps[k].c) }
          /\ steps[k].inner = 0 =>
                steps[k].before = (IF k = 1 THEN State_new ELSE steps[k - 1].after)
    /\ \A st \in DictStates :
          \A i \in 1..Len(st.templates) : st.templates[i].isList

\* The decoder went through a Value, a spelled-out list and a template use.
DictionaryFrameWitness ==
    /\ FromTree("PrefixCompressed")
    /\ pc = "visited"
    /\ input = List(<<L(<<12>>), L(<<12>>)>>)
    /\ Len(steps) = 4
    /\ steps[1].arm = "Value"
    /\ steps[2].arm = "List"
    /\ steps[3].arm = "Use"
    /\ steps[3].bytes = <<4, 0, 0, 0, 0>>
    /\ decState.templates = <<L(<<12>>), input>>

\* The index at which a dictionary holds a tree (from 0).
IndexOf(st, c) == (CHOOSE i \in 1..Len(st.templates) : st.templates[i] = c) - 1

\* C25: whole-subtree back-reference. Whenever the PrefixCompressed encoder
\* reaches a List equal to a dictionary entry, it writes for that node
\* exactly 0x04 and the entry's index as 4 little-endian bytes, and makes no
\* call for any of the node's descendants.
WholeSubtreeBackReference ==
    codec = "PrefixCompressed" /\ pc = "serialized" =>
        \A k \in 1..Len(steps) :
            (/\ steps[k].c.isList
             /\ \E i \in 1..Len(steps[k].before.templates) :
                   steps[k].before.templates[i] = steps[k].c)
            => /\ steps[k].arm = "Use"
               /\ steps[k].inner = 0
               /\ steps[k].bytes =
                     <<4>> \o [b \in 1..4 |->
                                 ByteOf(IndexOf(steps[k].before, steps[k].c), b)]

\* The encoder met List([List([])]) a second time: one call, five bytes
\* naming entry 1, nothing for the empty list inside.
WholeSubtreeBackReferenceWitness ==
    /\ FromTree("PrefixCompressed")
    /\ pc = "serialized"
    /\ input = NestedEmpties
    /\ data = <<131, 129, 128, 4, 1, 0, 0, 0, 4, 0, 0, 0, 0>>
    /\ Len(steps) = 5
    /\ steps[3].c = List(<<List(<<>>)>>)
    /\ steps[3].arm = "Use"
    /\ steps[3].inner = 0
    /\ steps[3].bytes = <<4, 1, 0, 0, 0>>

\* The List nodes of a tree, as a set of trees.
ListSubtrees(t) == (IF t.isList THEN {t} ELSE {}) \cup ListDescendants(t)

\* One item of the compressed grammar read at 0-based position st.pos of
\* the bytes, list markers of either form counted.
CountStep(bytes, st) ==
    IF ~st.ok \/ st.pos >= Len(bytes)
    THEN st
    ELSE IF bytes[st.pos + 1] = 0
    THEN [st EXCEPT !.lists = @ + 1, !.pos = @ + 9]
    ELSE IF bytes[st.pos + 1] = 1
    THEN [st EXCEPT !.pos = @ + 2]
    ELSE IF bytes[st.pos + 1] = 4
    THEN [st EXCEPT !.uses = @ + 1, !.pos = @ + 5]
    ELSE IF bytes[st.pos + 1] >= 128
    THEN [st EXCEPT !.lists = @ + 1, !.pos = @ + 1]
    ELSE [st EXCEPT !.ok = FALSE]

RECURSIVE CountSteps(_, _, _)
\* n items read one after the other, as two halves.
CountSteps(bytes, st, n) ==
    IF n = 0
    THEN st
    ELSE IF n = 1
    THEN CountStep(bytes, st)
    ELSE With(CountSteps(bytes, st, n \div 2),
              LAMBDA first: CountSteps(bytes, first, n - n \div 2))

\* The numbers of list markers and of template uses in a whole output.
MarkerCounts(bytes) ==
    CountSteps(bytes, [pos |-> 0, ok |-> TRUE, lists |-> 0, uses |-> 0],
               Len(bytes))

\* C26: each distinct list is spelled out exactly once. After
\* PrefixCompressedEncoding.serialize(t) the dictionary holds exactly the
\* structurally distinct List subtrees of t, the root and empty lists
\* included, and the output has as many list markers, inline or long, as
\* the dictionary has entries.
DistinctListsSpelledOnce ==
    /\ source \in {"tree", "typed"}
    /\ codec = "PrefixCompressed"
    /\ pc # "start"
    => /\ {encState.templates[i] : i \in 1..Len(encState.templates)}
             = ListSubtrees(input)
       /\ Len(encState.templates) = Cardinality(ListSubtrees(input))
       /\ \E m \in {MarkerCounts(data)} :
             /\ m.ok
             /\ m.pos = Len(data)
             /\ m.lists = Len(encState.templates)

\* A root with one list twice and two more lists: four dictionary entries,
\* four list markers and one template use in the output.
DistinctListsSpelledOnceWitness ==
    /\ FromTree("PrefixCompressed")
    /\ pc = "serialized"
    /\ input = RepeatedUniqueMix
    /\ Len(encState.templates) = 4
    /\ MarkerCounts(data).lists = 4
    /\ MarkerCounts(data).uses = 1

RECURSIVE ListCount(_), ListCountRange(_, _, _)
\* The number of List nodes of a tree, each position counted.
ListCount(t) ==
    IF t.isList THEN 1 + ListCountRange(t.c, 1, Len(t.c)) ELSE 0

ListCountRange(list, lo, hi) ==
    IF lo > hi
    THEN 0
    ELSE IF lo = hi
    THEN ListCount(list[lo])
    ELSE ListCountRange(list, lo, (lo + hi) \div 2)
         + ListCountRange(list, (lo + hi) \div 2 + 1, hi)

\* No two List nodes of the tree are structurally equal.
NoRepetition(t) == ListCount(t) = Cardinality(ListSubtrees(t))

\* C27: no repetition means no difference. For every tree in which no two
\* List nodes are equal, PrefixCompressedEncoding.serialize returns the
\* bytes PrefixEncoding.serialize returns.
NoRepetitionNoDifference ==
    /\ source \in {"tree", "typed"}
    /\ codec = "PrefixCompressed"
    /\ pc # "start"
    /\ NoRepetition(input)
    => data = PrefixEncoding_serialize(ConcreteView(input)).vec

\* Two lists of one shape and different leaves: both spelled out, as the
\* Prefix encoder does.
NoRepetitionNoDifferenceWitness ==
    /\ FromTree("PrefixCompressed")
    /\ pc = "serialized"
    /\ input = List(<<L(<<2>>), L(<<12>>)>>)
    /\ NoRepetition(input)
    /\ data = <<130, 129, 1, 2, 129, 1, 12>>

\* C28: trailing bytes are ignored. Prefix and PrefixCompressed visit_root
\* on serialize(t) followed by any bytes yields t, without a panic, with the
\* dictionary and the calls of serialize(t) alone: the decoders stop after
\* one root node.
TrailingBytesIgnored ==
    source = "trailing" /\ pc # "received" =>
        /\ pc = "visited"
        /\ output = [ok |-> TRUE, tree |-> input]
        /\ Len(data) > Len(Bytes(codec, input))
        /\ output = view_to_concrete(Encoded(codec, Bytes(codec, input)))
        /\ decState = DecoderState(codec, Bytes(codec, input))
        /\ steps = DecoderSteps(codec, Bytes(codec, input))

\* The Prefix decoder was handed the encoding of List([Value(12)]) followed
\* by a template use marker and a long list marker, and returned the list.
TrailingBytesIgnoredWitness ==
    /\ source = "trailing"
    /\ codec = "Prefix"
    /\ pc = "visited"
    /\ data = <<129, 1, 12, 4, 0>>
    /\ output.tree = L(<<12>>)

====
